---- MODULE Spec2Model ----
(***************************************************************************)
(* scripts/clean-article-inline-styles.py: the ordered rule table          *)
(* REPLACEMENTS, the per-file rewriter clean_html_file and the tree walker *)
(* and reporter main.                                                      *)
(*                                                                         *)
(* A document is the sequence of its atoms under one fixed lexing of text: *)
(* the quote character and ">" are atoms of their own, and every other     *)
(* atom is a maximal run of the remaining characters that is broken before *)
(* each "<".  Every text has exactly one such lexing.  Every matcher of    *)
(* REPLACEMENTS begins with "<", ends with ">", and its literal pieces and *)
(* its classes [^"]* and [^<]* are delimited by quotes, ">" and "<", so a  *)
(* match of the regular expression in the text is a match of the lexed     *)
(* pattern in the lexed document, and conversely.  The one literal piece   *)
(* that is not delimited so, in rule 8, is matched as the start of an atom.*)
(***************************************************************************)
EXTENDS Naturals, Sequences, FiniteSets

VARIABLES disk, orig, before, dry_run, single, pc, html_files, idx, updated,
          out, reads, writes, calls

vars == <<disk, orig, before, dry_run, single, pc, html_files, idx, updated,
          out, reads, writes, calls>>

----------------------------------------------------------------------------
(* Atoms *)

Quote == "\""

Gt == ">"

\* The atoms that begin with "<" (no other atom holds a "<").
TagAtoms ==
    {"</a", "</h3", "</h4", "</p", "<a href=", "<article class=", "<div class=",
     "<div style=", "<h3", "<h3 style=", "<h4", "<h4 style=", "<li",
     "<li style=", "<p", "<p class=", "<p style=", "<span class=", "<table",
     "<table style=", "<td", "<td style=", "<th", "<th style=", "<thead",
     "<thead style=", "<tr", "<tr style=", "<ul", "<ul style="}

\* The matcher elements that are character classes, as the source writes them.
AnyButQuote == "[^\"]*"

GroupAnyButQuote == "([^\"]*)"

GroupAnyButLt == "([^<]*)"

\* Rule 8 runs literal text straight into [^"]*: the element matches an atom
\* that starts with the literal text, and then any atoms up to the next quote.
SuccessStyle == "background: #f0fdf4; border-left: 4px solid #22c55e;[^\"]*"

\* The atoms of the documents considered that start with rule 8's literal text.
SuccessStyleAtoms ==
    {"background: #f0fdf4; border-left: 4px solid #22c55e;",
     "background: #f0fdf4; border-left: 4px solid #22c55e; padding: 1rem;"}

\* The atoms that [^"] and [^<] do not match.
HasQuote == {Quote}

HasLt == TagAtoms

----------------------------------------------------------------------------
(* The rule table *)

REPLACEMENTS ==
    << \* rule 1, lines 23-26
       [pattern     |-> <<"<article class=", "\"", "article-content container", "\"", ">">>,
        replacement |-> <<"<article class=", "\"", "article-content", "\"", ">">>],
       \* rule 2, lines 29-32
       [pattern     |-> <<"<div class=", "\"", "key-takeaways", "\"", " style=", "\"", "[^\"]*", "\"", ">">>,
        replacement |-> <<"<div class=", "\"", "key-takeaways", "\"", ">">>],
       \* rule 3, lines 33-36
       [pattern     |-> <<"<h3 style=", "\"", "color: white; margin-bottom: 1rem;", "\"", ">", "Key Takeaways", "</h3", ">">>,
        replacement |-> <<"<h3", ">", "Key Takeaways", "</h3", ">">>],
       \* rule 4, lines 37-40
       [pattern     |-> <<"<ul style=", "\"", "list-style: none; padding: 0;", "\"", ">">>,
        replacement |-> <<"<ul", ">">>],
       \* rule 5, lines 41-44
       [pattern     |-> <<"<li style=", "\"", "margin-bottom: 0.75rem;", "\"", ">">>,
        replacement |-> <<"<li", ">">>],
       \* rule 6, lines 47-50
       [pattern     |-> <<"<div class=", "\"", "info-box", "\"", " style=", "\"", "[^\"]*", "\"", ">">>,
        replacement |-> <<"<div class=", "\"", "info-box", "\"", ">">>],
       \* rule 7, lines 53-56
       [pattern     |-> <<"<div style=", "\"", "background: #fef2f2; border-left: 4px solid #ef4444; padding: 1.5rem; margin: 1.5rem 0; border-radius: 0 8px 8px 0;", "\"", ">">>,
        replacement |-> <<"<div class=", "\"", "warning-box", "\"", ">">>],
       \* rule 8, lines 59-62
       [pattern     |-> <<"<div style=", "\"", "background: #f0fdf4; border-left: 4px solid #22c55e;[^\"]*", "\"", ">">>,
        replacement |-> <<"<div class=", "\"", "success-box", "\"", ">">>],
       \* rule 9, lines 65-68
       [pattern     |-> <<"<table style=", "\"", "[^\"]*", "\"", ">">>,
        replacement |-> <<"<table", ">">>],
       \* rule 10, lines 69-72
       [pattern     |-> <<"<thead style=", "\"", "[^\"]*", "\"", ">">>,
        replacement |-> <<"<thead", ">">>],
       \* rule 11, lines 73-76
       [pattern     |-> <<"<th style=", "\"", "[^\"]*", "\"", ">">>,
        replacement |-> <<"<th", ">">>],
       \* rule 12, lines 77-80
       [pattern     |-> <<"<td style=", "\"", "[^\"]*", "\"", ">">>,
        replacement |-> <<"<td", ">">>],
       \* rule 13, lines 81-84
       [pattern     |-> <<"<tr style=", "\"", "[^\"]*", "\"", ">">>,
        replacement |-> <<"<tr", ">">>],
       \* rule 14, lines 87-90
       [pattern     |-> <<"<div class=", "\"", "cta-box", "\"", " style=", "\"", "[^\"]*", "\"", ">">>,
        replacement |-> <<"<div class=", "\"", "cta-box", "\"", ">">>],
       \* rule 15, lines 91-94
       [pattern     |-> <<"<h3 style=", "\"", "color: white; font-size: 2rem; margin: 0 0 1rem 0;", "\"", ">">>,
        replacement |-> <<"<h3", ">">>],
       \* rule 16, lines 95-98
       [pattern     |-> <<"<p style=", "\"", "font-size: 1.2rem; margin-bottom: 1.5rem;", "\"", ">">>,
        replacement |-> <<"<p", ">">>],
       \* rule 17, lines 99-102
       [pattern     |-> <<"<a href=", "\"", "([^\"]*)", "\"", " class=", "\"", "cta-button", "\"", " style=", "\"", "[^\"]*", "\"", ">">>,
        replacement |-> <<"<a href=", "\"", "\\1", "\"", " class=", "\"", "cta-button", "\"", ">">>],
       \* rule 18, lines 105-108
       [pattern     |-> <<"<div class=", "\"", "related-posts", "\"", " style=", "\"", "[^\"]*", "\"", ">">>,
        replacement |-> <<"<div class=", "\"", "related-posts", "\"", ">">>],
       \* rule 19, lines 109-112
       [pattern     |-> <<"<h3 style=", "\"", "font-size: 1.5rem; margin-bottom: 1.5rem;", "\"", ">", "([^<]*)", "</h3", ">">>,
        replacement |-> <<"<h3", ">", "\\1", "</h3", ">">>],
       \* rule 20, lines 113-116
       [pattern     |-> <<"<div style=", "\"", "display: grid; grid-template-columns: repeat(auto-fit, minmax(300px, 1fr)); gap: 1.5rem;", "\"", ">">>,
        replacement |-> <<"<div class=", "\"", "related-posts-grid", "\"", ">">>],
       \* rule 21, lines 117-120
       [pattern     |-> <<"<div style=", "\"", "border: 1px solid #e2e8f0; border-radius: 8px; padding: 1.5rem;", "\"", ">">>,
        replacement |-> <<"<div class=", "\"", "related-post-card", "\"", ">">>],
       \* rule 22, lines 121-124
       [pattern     |-> <<"<h4 style=", "\"", "margin: 0 0 0.5rem 0;", "\"", ">", "<a href=", "\"", "([^\"]*)", "\"", " style=", "\"", "color: #0ea5e9;", "\"", ">", "([^<]*)", "</a", ">", "</h4", ">">>,
        replacement |-> <<"<h4", ">", "<a href=", "\"", "\\1", "\"", ">", "\\2", "</a", ">", "</h4", ">">>],
       \* rule 23, lines 125-128
       [pattern     |-> <<"<p style=", "\"", "margin: 0; color: #64748b;", "\"", ">">>,
        replacement |-> <<"<p", ">">>],
       \* rule 24, lines 131-134
       [pattern     |-> <<"<div class=", "\"", "step", "\"", " style=", "\"", "[^\"]*", "\"", ">">>,
        replacement |-> <<"<div class=", "\"", "step", "\"", ">">>],
       \* rule 25, lines 135-138
       [pattern     |-> <<"<span class=", "\"", "step-number", "\"", " style=", "\"", "[^\"]*", "\"", ">">>,
        replacement |-> <<"<span class=", "\"", "step-number", "\"", ">">>],
       \* rule 26, lines 141-144
       [pattern     |-> <<"<div class=", "\"", "related-grid", "\"", " style=", "\"", "[^\"]*", "\"", ">">>,
        replacement |-> <<"<div class=", "\"", "related-grid", "\"", ">">>],
       \* rule 27, lines 147-150
       [pattern     |-> <<"<p class=", "\"", "cta-subtext", "\"", " style=", "\"", "[^\"]*", "\"", ">">>,
        replacement |-> <<"<p class=", "\"", "cta-subtext", "\"", ">">>] >>

----------------------------------------------------------------------------
(* re.sub over atoms *)

NoMatch == [end |-> 0, groups |-> <<>>]

\* The end of the longest run of atoms outside `excluded` that starts at i (a
\* greedy class; every class of the table is followed by an atom it does not
\* match, so the longest run is the only one the regular expression can take).
RunEnd(doc, i, excluded) ==
    LET stops == {j \in i..Len(doc) : doc[j] \in excluded}
    IN  IF stops = {} THEN Len(doc) + 1
        ELSE CHOOSE j \in stops : \A k \in stops : j <= k

\* Match pattern[k..] against doc at position i: the position after the match
\* and the captured groups, or NoMatch.
RECURSIVE MatchAt(_, _, _, _, _)
MatchAt(pattern, k, doc, i, groups) ==
    IF k > Len(pattern) THEN [end |-> i, groups |-> groups]
    ELSE LET e == pattern[k] IN
         CASE e = AnyButQuote ->
                MatchAt(pattern, k + 1, doc, RunEnd(doc, i, HasQuote), groups)
           [] e = GroupAnyButQuote ->
                LET j == RunEnd(doc, i, HasQuote)
                IN  MatchAt(pattern, k + 1, doc, j,
                            Append(groups, SubSeq(doc, i, j - 1)))
           [] e = GroupAnyButLt ->
                LET j == RunEnd(doc, i, HasLt)
                IN  MatchAt(pattern, k + 1, doc, j,
                            Append(groups, SubSeq(doc, i, j - 1)))
           [] e = SuccessStyle ->
                IF i <= Len(doc) /\ doc[i] \in SuccessStyleAtoms
                THEN MatchAt(pattern, k + 1, doc,
                             RunEnd(doc, i + 1, HasQuote), groups)
                ELSE NoMatch
           [] OTHER ->
                IF i <= Len(doc) /\ doc[i] = e
                THEN MatchAt(pattern, k + 1, doc, i + 1, groups)
                ELSE NoMatch

\* The replacement template with \1 and \2 replaced by the captured groups.
RECURSIVE Expand(_, _)
Expand(replacement, groups) ==
    IF replacement = <<>> THEN <<>>
    ELSE LET e == Head(replacement) IN
         (CASE e = "\\1" -> groups[1]
            [] e = "\\2" -> groups[2]
            [] OTHER -> <<e>>)
         \o Expand(Tail(replacement), groups)

\* re.sub from position i on: every non-overlapping match, leftmost first.
RECURSIVE SubFrom(_, _, _, _)
SubFrom(pattern, replacement, content, i) ==
    IF i > Len(content) THEN <<>>
    ELSE LET m == MatchAt(pattern, 1, content, i, <<>>) IN
         IF m.end > 0
         THEN Expand(replacement, m.groups)
              \o SubFrom(pattern, replacement, content, m.end)
         ELSE <<content[i]>> \o SubFrom(pattern, replacement, content, i + 1)

re_sub(pattern, replacement, content) == SubFrom(pattern, replacement, content, 1)

\* The loop of clean_html_file: rules k..Len(table) applied in table order.
RECURSIVE ApplyFrom(_, _, _)
ApplyFrom(table, k, content) ==
    IF k > Len(table) THEN content
    ELSE ApplyFrom(table, k + 1,
                   re_sub(table[k].pattern, table[k].replacement, content))

\* ApplyRules with the table walked from its last rule to its first.
RECURSIVE ApplyBack(_, _, _)
ApplyBack(table, k, content) ==
    IF k = 0 THEN content
    ELSE ApplyBack(table, k - 1,
                   re_sub(table[k].pattern, table[k].replacement, content))

ApplyRules_Reversed(table, content) == ApplyBack(table, Len(table), content)

ApplyRules(table, content) == ApplyFrom(table, 1, content)

----------------------------------------------------------------------------
(* Files *)

\* The two paths under POSTS_DIR that match "*.html".
PostA == "posts/2025/10/alpha.html"

PostB == "posts/2025/11/beta.html"

PostPaths == {PostA, PostB}

\* The paths in the order sorted() gives them.
PathOrder == <<PostA, PostB>>

\* args.single when --single is not given.
None == "None"

SingleArgs == {None, ""} \cup PostPaths

\* `if args.single:` is false for None and for the empty string.
Truthy(arg) == arg \notin {None, ""}

Range(s) == {s[i] : i \in 1..Len(s)}

\* list(POSTS_DIR.rglob("*.html")): the posts on disk, in the order the
\* directory scan happens to give them.
rglob(files) ==
    LET found == files \cap PostPaths
    IN  {s \in [1..Cardinality(found) -> found] : Range(s) = found}

\* sorted with the sort left out: the order of the directory scan.
sorted_Unsorted(files) == files

sorted(files) == SelectSeq(PathOrder, LAMBDA p : p \in Range(files))

----------------------------------------------------------------------------
(* Documents *)

\* spec.md section 8, example scenarios 1 to 4.
Scenario1 ==
    <<"<div class=", Quote, "key-takeaways", Quote, " style=", Quote,
      "background:#000;", Quote, Gt>>

Scenario2 == <<"<table style=", Quote, "width:100%", Quote, Gt>>

Scenario3 ==
    <<"<a href=", Quote, "/x", Quote, " class=", Quote, "cta-button", Quote,
      " style=", Quote, "color:red;", Quote, Gt, "Go", "</a", Gt>>

Scenario4 == <<"<p", Gt, "plain text", "</p", Gt>>

\* <table style="<td style="">">: a styled cell inside a table's style value.
NestedStyle ==
    <<"<table style=", Quote, "<td style=", Quote, Quote, Gt, Quote, Gt>>

\* A success box around a related-posts heading: rule 8, whose literal text
\* runs into [^"]*, and rule 19, which captures the heading's text.
SuccessBox ==
    <<"<div style=", Quote,
      "background: #f0fdf4; border-left: 4px solid #22c55e; padding: 1rem;",
      Quote, Gt,
      "<h3 style=", Quote, "font-size: 1.5rem; margin-bottom: 1.5rem;", Quote,
      Gt, "Related", "</h3", Gt>>

SampleDocs ==
    {Scenario1, Scenario2, Scenario3, Scenario4, NestedStyle, SuccessBox}

\* The pieces the documents of RewriteSpec are put together from: the opening
\* of a styled table, a styled cell, the end of a styled tag, a style value,
\* and the opening of a styled call-to-action link.
Fragments ==
    { <<"<table style=", Quote>>,
      <<"<td style=", Quote, Quote, Gt>>,
      <<Quote, Gt>>,
      <<"width:100%">>,
      <<"<a href=", Quote, "/x", Quote, " class=", Quote, "cta-button", Quote,
        " style=", Quote>> }

MaxFrags == 3

\* A sequence of atoms is the lexing of a text iff no plain chunk follows
\* another chunk (the two would have been lexed as one atom).
Canonical(doc) ==
    \A i \in 2..Len(doc) :
        doc[i] \notin TagAtoms \cup {Quote, Gt} => doc[i - 1] \in {Quote, Gt}

RECURSIVE Concats(_)
Concats(n) ==
    IF n = 0 THEN {<<>>}
    ELSE LET shorter == Concats(n - 1)
         IN  shorter \cup {d \o f : d \in shorter, f \in Fragments}

Docs == {d \in Concats(MaxFrags) : Canonical(d)}

----------------------------------------------------------------------------
(* clean_html_file *)

Banner == <<"Cleaning inline styles from blog posts...">>

Separator == <<"--------------------------------------------------">>

\* clean_html_file with the dry_run test left out: it writes in a preview too.
clean_html_file_IgnoresDryRun(filepath, dry, readFails, writeFails) ==
    LET original == disk[filepath]
        content  == ApplyRules(REPLACEMENTS, original)
        error    == << <<"Error processing", filepath>> >>
    IN  IF readFails
        THEN [changed |-> FALSE, exception |-> "caught", disk |-> disk,
              printed |-> error, reads |-> <<filepath>>, writes |-> <<>>]
        ELSE IF content # original
        THEN IF writeFails
             THEN [changed |-> FALSE, exception |-> "caught",
                   disk |-> disk, printed |-> error,
                   reads |-> <<filepath>>, writes |-> <<filepath>>]
             ELSE [changed |-> TRUE, exception |-> "none",
                   disk |-> [disk EXCEPT ![filepath] = content],
                   printed |-> <<>>,
                   reads |-> <<filepath>>, writes |-> <<filepath>>]
        ELSE [changed |-> FALSE, exception |-> "none", disk |-> disk,
              printed |-> <<>>, reads |-> <<filepath>>, writes |-> <<>>]

\* clean_html_file without its try/except: a failing read or write leaves it
\* as an exception.
clean_html_file_NoExcept(filepath, dry, readFails, writeFails) ==
    LET original == disk[filepath]
        content  == ApplyRules(REPLACEMENTS, original)
    IN  IF readFails
        THEN [changed |-> FALSE, exception |-> "uncaught", disk |-> disk,
              printed |-> <<>>, reads |-> <<filepath>>, writes |-> <<>>]
        ELSE IF content # original
        THEN IF ~dry
             THEN IF writeFails
                  THEN [changed |-> FALSE, exception |-> "uncaught",
                        disk |-> disk, printed |-> <<>>,
                        reads |-> <<filepath>>, writes |-> <<filepath>>]
                  ELSE [changed |-> TRUE, exception |-> "none",
                        disk |-> [disk EXCEPT ![filepath] = content],
                        printed |-> <<>>,
                        reads |-> <<filepath>>, writes |-> <<filepath>>]
             ELSE [changed |-> TRUE, exception |-> "none", disk |-> disk,
                   printed |-> <<>>, reads |-> <<filepath>>, writes |-> <<>>]
        ELSE [changed |-> FALSE, exception |-> "none", disk |-> disk,
              printed |-> <<>>, reads |-> <<filepath>>, writes |-> <<>>]

\* clean_html_file without the comparison of content with original: it takes
\* every file it could read as changed.
clean_html_file_NoCompare(filepath, dry, readFails, writeFails) ==
    LET original == disk[filepath]
        content  == ApplyRules(REPLACEMENTS, original)
        error    == << <<"Error processing", filepath>> >>
    IN  IF readFails
        THEN [changed |-> FALSE, exception |-> "caught", disk |-> disk,
              printed |-> error, reads |-> <<filepath>>, writes |-> <<>>]
        ELSE IF ~dry
        THEN IF writeFails
             THEN [changed |-> FALSE, exception |-> "caught",
                   disk |-> disk, printed |-> error,
                   reads |-> <<filepath>>, writes |-> <<filepath>>]
             ELSE [changed |-> TRUE, exception |-> "none",
                   disk |-> [disk EXCEPT ![filepath] = content],
                   printed |-> <<>>,
                   reads |-> <<filepath>>, writes |-> <<filepath>>]
        ELSE [changed |-> TRUE, exception |-> "none", disk |-> disk,
              printed |-> <<>>, reads |-> <<filepath>>, writes |-> <<>>]

\* One call of clean_html_file on the files as they are: what it returns, the
\* files after it, what it prints, and the paths it reads and writes.  readFails
\* and writeFails say whether read_text and write_text raise in this call; a
\* write_text that raises leaves the file as it was.  exception is "caught"
\* when the except clause handled one, and would be "uncaught" if one left the
\* function; `except Exception` leaves none.
clean_html_file(filepath, dry, readFails, writeFails) ==
    LET original == disk[filepath]
        content  == ApplyRules(REPLACEMENTS, original)
        error    == << <<"Error processing", filepath>> >>
    IN  IF readFails
        THEN [changed |-> FALSE, exception |-> "caught", disk |-> disk,
              printed |-> error, reads |-> <<filepath>>, writes |-> <<>>]
        ELSE IF content # original
        THEN IF ~dry
             THEN IF writeFails
                  THEN [changed |-> FALSE, exception |-> "caught",
                        disk |-> disk, printed |-> error,
                        reads |-> <<filepath>>, writes |-> <<filepath>>]
                  ELSE [changed |-> TRUE, exception |-> "none",
                        disk |-> [disk EXCEPT ![filepath] = content],
                        printed |-> <<>>,
                        reads |-> <<filepath>>, writes |-> <<filepath>>]
             ELSE [changed |-> TRUE, exception |-> "none", disk |-> disk,
                   printed |-> <<>>, reads |-> <<filepath>>, writes |-> <<>>]
        ELSE [changed |-> FALSE, exception |-> "none", disk |-> disk,
              printed |-> <<>>, reads |-> <<filepath>>, writes |-> <<>>]

----------------------------------------------------------------------------
(* main *)

\* Lines 174-180: parse the arguments and print the banner.
ParseArgs(dr, sg) ==
    /\ pc \in {"idle", "done", "crashed"}
    /\ dry_run' = dr
    /\ single' = sg
    /\ out' = <<Banner, Separator>>
    /\ before' = disk
    /\ reads' = <<>>
    /\ writes' = <<>>
    /\ calls' = <<>>
    /\ updated' = 0
    /\ UNCHANGED <<disk, orig>>

\* Line 182, --single given.
StartSingle(dr, sg) ==
    /\ Truthy(sg)
    /\ ParseArgs(dr, sg)
    /\ html_files' = <<>>
    /\ idx' = 0
    /\ pc' = "single"

\* Lines 182 and 193-194: no --single, enumerate the posts.
StartBatch(dr, sg) ==
    /\ ~Truthy(sg)
    /\ ParseArgs(dr, sg)
    /\ \E files \in rglob(DOMAIN disk) : html_files' = files
    /\ idx' = 1
    /\ pc' = "batch"

\* What a call of clean_html_file leaves behind, with `lines` printed after it
\* returns; an exception that leaves it ends main before they are printed.
Effects(r, filepath, lines) ==
    /\ disk' = r.disk
    /\ out' = out \o r.printed
                  \o (IF r.exception = "uncaught" THEN <<>> ELSE lines)
    /\ reads' = reads \o r.reads
    /\ writes' = writes \o r.writes
    /\ calls' = Append(calls, [path |-> filepath, changed |-> r.changed,
                               exception |-> r.exception])

SingleStatus(dry, changed) ==
    IF dry THEN "Would update" ELSE IF changed THEN "Updated" ELSE "No changes"

\* Lines 183-187: the single file exists.
SingleFile ==
    /\ pc = "single"
    /\ single \in DOMAIN disk
    /\ \E readFails, writeFails \in BOOLEAN :
         LET r == clean_html_file(single, dry_run, readFails, writeFails)
         IN  /\ Effects(r, single,
                        << <<SingleStatus(dry_run, r.changed), single>> >>)
             /\ pc' = IF r.exception = "uncaught" THEN "crashed" ELSE "done"
    /\ UNCHANGED <<orig, before, dry_run, single, html_files, idx, updated>>

\* SingleMissing without the return of line 190: main goes on to the batch.
SingleMissing_FallsThrough ==
    /\ pc = "single"
    /\ single \notin DOMAIN disk
    /\ out' = Append(out, <<"File not found", single>>)
    /\ \E files \in rglob(DOMAIN disk) : html_files' = files
    /\ idx' = 1
    /\ pc' = "batch"
    /\ UNCHANGED <<disk, orig, before, dry_run, single, updated, reads,
                   writes, calls>>

\* Lines 188-190: the single file does not exist.
SingleMissing ==
    /\ pc = "single"
    /\ single \notin DOMAIN disk
    /\ out' = Append(out, <<"File not found", single>>)
    /\ pc' = "done"
    /\ UNCHANGED <<disk, orig, before, dry_run, single, html_files, idx,
                   updated, reads, writes, calls>>

BatchStatus(dry, changed) ==
    IF changed THEN (IF dry THEN "Would update" ELSE "Updated")
    ELSE "No changes"

\* Lines 196-205: one iteration of the loop over sorted(html_files).
BatchFile ==
    /\ pc = "batch"
    /\ idx <= Len(sorted(html_files))
    /\ LET filepath == sorted(html_files)[idx] IN
       \E readFails, writeFails \in BOOLEAN :
         LET r == clean_html_file(filepath, dry_run, readFails, writeFails)
         IN  /\ Effects(r, filepath,
                        << <<BatchStatus(dry_run, r.changed), filepath>> >>)
             /\ updated' = IF r.changed THEN updated + 1 ELSE updated
             /\ pc' = IF r.exception = "uncaught" THEN "crashed" ELSE pc
    /\ idx' = idx + 1
    /\ UNCHANGED <<orig, before, dry_run, single, html_files>>

\* Action with the dry_run test left out.
Action_AlwaysUpdated(dry) == "Updated"

Action(dry) == IF dry THEN "Would update" ELSE "Updated"

\* Lines 207-209: after the loop.
Summary ==
    /\ pc = "batch"
    /\ idx > Len(sorted(html_files))
    /\ out' = out \o <<Separator,
                       <<Action(dry_run), updated, Len(html_files), "posts">> >>
    /\ pc' = "done"
    /\ UNCHANGED <<disk, orig, before, dry_run, single, html_files, idx,
                   updated, reads, writes, calls>>

----------------------------------------------------------------------------
(* Specifications *)

InitRun ==
    /\ orig = disk
    /\ before = disk
    /\ dry_run = FALSE
    /\ single = None
    /\ pc = "idle"
    /\ html_files = <<>>
    /\ idx = 0
    /\ updated = 0
    /\ out = <<>>
    /\ reads = <<>>
    /\ writes = <<>>
    /\ calls = <<>>

\* Either post may exist, each holding one of the sample documents.
Init ==
    /\ disk \in UNION {[S -> SampleDocs] : S \in SUBSET PostPaths}
    /\ InitRun

\* One post, holding any document put together from at most MaxFrags fragments.
InitRewrite ==
    /\ disk \in [{PostA} -> Docs]
    /\ InitRun

Next ==
    \/ \E dr \in BOOLEAN, sg \in SingleArgs : StartSingle(dr, sg)
    \/ \E dr \in BOOLEAN, sg \in SingleArgs : StartBatch(dr, sg)
    \/ SingleFile
    \/ SingleMissing
    \/ BatchFile
    \/ Summary

Spec == Init /\ [][Next]_vars

RewriteSpec == InitRewrite /\ [][Next]_vars

----------------------------------------------------------------------------
(* Properties *)

BatchMode == ~Truthy(single)

CallIndexes == 1..Len(calls)

Called == {calls[i].path : i \in CallIndexes}

\* The lines of out that name a file: status lines and error lines.
FileLines == SelectSeq(out, LAMBDA l : Len(l) = 2)

\* The summary lines of out.
SummaryIndexes == {i \in 1..Len(out) : Len(out[i]) = 4}

Kinds == {out[i][1] : i \in 1..Len(out)}

\* re.search: whether the matcher matches somewhere in the document.
HasMatch(pattern, content) ==
    \E i \in 1..Len(content) : MatchAt(pattern, 1, content, i, <<>>).end > 0

\* No rule of the table has a match in the document.
Clean(content) ==
    \A k \in 1..Len(REPLACEMENTS) : ~HasMatch(REPLACEMENTS[k].pattern, content)

\* The document after rules 1..k, each applied once, in table order.
RECURSIVE FirstRules(_, _)
FirstRules(k, content) ==
    IF k = 0 THEN content
    ELSE re_sub(REPLACEMENTS[k].pattern, REPLACEMENTS[k].replacement,
                FirstRules(k - 1, content))

Rewritten(content) == FirstRules(Len(REPLACEMENTS), content)

RuleFor(tag) ==
    CHOOSE k \in 1..Len(REPLACEMENTS) : REPLACEMENTS[k].pattern[1] = tag

SwapRules(table, i, j) ==
    [k \in 1..Len(table) |->
        IF k = i THEN table[j] ELSE IF k = j THEN table[i] ELSE table[k]]

PathLess(p, q) == p = PostA /\ q = PostB

\* C1: idempotence.  A file that a live run has written holds R(D), and R of
\* it is R(D) again; so a file that an earlier run has rewritten is not
\* written by a later run.
C1_Idempotent ==
    /\ \A f \in Range(writes) :
          disk[f] # before[f] => ApplyRules(REPLACEMENTS, disk[f]) = disk[f]
    /\ \A f \in Range(writes) : before[f] = orig[f]

\* C2: dry-run purity.  From the start of a run with the preview flag to the
\* start of the next run, no write is attempted and every file holds what it
\* held when the run began.
C2_DryRunPurity ==
    (dry_run /\ pc # "idle") =>
        /\ writes = <<>>
        /\ DOMAIN disk = DOMAIN before
        /\ \A f \in DOMAIN disk : disk[f] = before[f]

\* A finished preview of a batch that reported one file as "Would update" and
\* another as failed and "No changes".
C2_Witness ==
    /\ pc = "done" /\ dry_run /\ BatchMode
    /\ {"Would update", "Error processing", "No changes"} \subseteq Kinds

\* C3: a failure on one file is not fatal to a batch.  No exception leaves
\* clean_html_file; a call that failed printed the error with the path and
\* returned false, so it is not counted; the loop goes on to every later file
\* and the run ends with the summary line.
C3_FailureNotFatal ==
    /\ pc # "crashed"
    /\ \A i \in CallIndexes :
          calls[i].exception # "none" =>
              /\ calls[i].exception = "caught"
              /\ ~calls[i].changed
              /\ <<"Error processing", calls[i].path>> \in Range(out)
    /\ (BatchMode /\ pc = "batch") => Len(calls) = idx - 1
    /\ (BatchMode /\ pc \in {"batch", "done"}) =>
          updated = Cardinality({i \in CallIndexes : calls[i].changed})
    /\ (BatchMode /\ pc = "done") =>
          /\ Called = DOMAIN before \cap PostPaths
          /\ Len(calls) = Len(html_files)
          /\ Len(out[Len(out)]) = 4

\* A finished batch whose first file failed and whose second was updated.
C3_Witness ==
    /\ pc = "done" /\ BatchMode /\ Len(calls) = 2
    /\ calls[1].exception = "caught"
    /\ calls[2].changed
    /\ <<"Updated", calls[2].path>> \in Range(out)

\* C4: single-file mode reports the outcome of the rewriter for an existing
\* file: "No changes" whenever changed is false, "Updated" exactly when the
\* run is live and changed is true, "Would update" exactly when the run is a
\* preview and changed is true.
C4_SingleStatus ==
    (pc = "done" /\ Truthy(single) /\ calls # <<>>) =>
        LET changed == calls[1].changed
            status  == out[Len(out)][1]
        IN  /\ ~changed => status = "No changes"
            /\ status = "Updated" <=> (~dry_run /\ changed)
            /\ status = "Would update" <=> (dry_run /\ changed)

\* C5: single-file mode with a path that does not exist prints "File not
\* found" and ends: clean_html_file is not called, nothing is read or
\* written, the posts are not enumerated and no summary is printed.
C5_MissingSingleFile ==
    (Truthy(single) /\ single \notin DOMAIN before /\ pc # "single") =>
        /\ pc = "done"
        /\ out = <<Banner, Separator, <<"File not found", single>> >>
        /\ calls = <<>>
        /\ reads = <<>>
        /\ writes = <<>>
        /\ html_files = <<>>
        /\ disk = before

\* A finished run on a missing path while the other post is on disk.
C5_Witness ==
    /\ pc = "done" /\ Truthy(single) /\ single \notin DOMAIN disk
    /\ DOMAIN disk # {}
    /\ <<"File not found", single>> \in Range(out)

\* C6: batch mode prints exactly one line per file processed: the error
\* marker for a file that failed and one of the three statuses otherwise.
C6_OneLinePerFile ==
    (BatchMode /\ pc \in {"batch", "done"}) =>
        /\ Len(FileLines) = Len(calls)
        /\ \A i \in CallIndexes :
              /\ i <= Len(FileLines)
              /\ FileLines[i][2] = calls[i].path
              /\ FileLines[i][1] \in
                    {"Would update", "Updated", "No changes", "Error processing"}
              /\ FileLines[i][1] = "Error processing"
                    <=> calls[i].exception # "none"

\* C7: the summary is printed once, as the last line of a batch run, and reads
\* <action> <updated>/<total>: the action follows the preview flag, updated is
\* the number of files whose rewrite returned changed (the files reported
\* "Updated" or "Would update"), total is the number of files enumerated,
\* failed ones included, and 0 <= updated <= total.
C7_Summary ==
    /\ (BatchMode /\ pc = "done") =>
          LET n     == Cardinality({i \in CallIndexes : calls[i].changed})
              total == Cardinality(DOMAIN before \cap PostPaths)
          IN  /\ SummaryIndexes = {Len(out)}
              /\ out[Len(out)] =
                    <<IF dry_run THEN "Would update" ELSE "Updated",
                      n, total, "posts">>
              /\ n = Cardinality(
                       {i \in 1..Len(out) :
                           /\ Len(out[i]) = 2
                           /\ out[i][1] \in {"Updated", "Would update"}})
              /\ total = Len(calls)
              /\ n <= total
    /\ ~(BatchMode /\ pc = "done") => SummaryIndexes = {}

\* A finished preview of two posts of which one would change.
C7_Witness ==
    /\ pc = "done" /\ BatchMode /\ dry_run
    /\ out[Len(out)] = <<"Would update", 1, 2, "posts">>

\* C8: no-op on clean input.  A file in which no rule has a match is returned
\* as it is: the rewritten text is the document, the call returns false and
\* the file is not written, in a live run and in a preview.
C8_NoOpOnCleanInput ==
    \A i \in CallIndexes :
        LET f == calls[i].path
            D == before[f]
        IN  Clean(D) =>
                /\ ApplyRules(REPLACEMENTS, D) = D
                /\ ~calls[i].changed
                /\ disk[f] = D
                /\ f \notin Range(writes)

\* A finished live run on a file that opens a styled table and never closes
\* the tag, so that no rule matches.
C8_Witness ==
    /\ pc = "done" /\ ~dry_run /\ calls # <<>>
    /\ calls[1].exception = "none"
    /\ Clean(before[calls[1].path])
    /\ "<table style=" \in Range(before[calls[1].path])

\* C9: the rules are applied in table order, each once per file per run, and
\* the order decides the result: on <table style="<td style="">"> the table
\* gives <table style="<td>">, and the table with the table rule and the td
\* rule swapped gives <table>.
C9_OrderSensitive ==
    /\ \A i, j \in CallIndexes : calls[i].path = calls[j].path => i = j
    /\ \A i \in CallIndexes :
          LET f == calls[i].path
              D == before[f]
          IN  (calls[i].changed /\ ~dry_run) =>
                  /\ disk[f] = FirstRules(Len(REPLACEMENTS), D)
                  /\ D = NestedStyle =>
                        /\ disk[f] =
                              <<"<table style=", Quote, "<td", Gt, Quote, Gt>>
                        /\ ApplyRules(SwapRules(REPLACEMENTS,
                                                RuleFor("<table style="),
                                                RuleFor("<td style=")), D)
                              = <<"<table", Gt>>

\* A live run has rewritten <table style="<td style="">">, and the table with
\* the two rules swapped would have left another text.
C9_Witness ==
    \E i \in CallIndexes :
        LET f == calls[i].path IN
        /\ calls[i].changed /\ ~dry_run /\ pc = "done"
        /\ before[f] = NestedStyle
        /\ RuleFor("<table style=") < RuleFor("<td style=")
        /\ disk[f] # ApplyRules(SwapRules(REPLACEMENTS,
                                          RuleFor("<table style="),
                                          RuleFor("<td style=")), before[f])

====
